---- MODULE Spec2Model ----
(***************************************************************************)
(* TBM-TSP Visualizer: the data pipeline of the two Streamlit apps.        *)
(*   src/app.py            the basic app      (app = "basic")              *)
(*   src/unnamed/part_000  the enhanced app   (app = "enhanced")           *)
(* One run of a Streamlit script is modelled as a walk of pc through the   *)
(* script, top to bottom.  The widgets (slider, selectbox, button) are the *)
(* inputs, drawn with \E.                                                  *)
(*                                                                         *)
(* Cells.  A cell is a record [k, v, s]:                                   *)
(*   k = "null"  an empty cell (None)                                      *)
(*   k = "nan"   the float NaN                                             *)
(*   k = "inf"   an infinite float, v = 1 or v = -1                        *)
(*   k = "num"   a finite number; v holds the value in tenths              *)
(*   k = "str"   a text; s is its sequence of characters                   *)
(* Texts of the position column carry at most one fractional digit, so the *)
(* tenths are exact.                                                       *)
(***************************************************************************)
EXTENDS Integers, Sequences, FiniteSets

VARIABLES app, pc, uploaded, data, chain_col, selected_range, filtered,
          numeric_cols, x_axis, y_axis, trend, plotted, top, err,
          text_in, text_out

vars == <<app, pc, uploaded, data, chain_col, selected_range, filtered,
          numeric_cols, x_axis, y_axis, trend, plotted, top, err,
          text_in, text_out>>

pipeVars == <<app, uploaded, data, chain_col, selected_range, filtered,
              numeric_cols, x_axis, y_axis, trend, plotted, top, err>>

pipeVarsButErr == <<app, uploaded, data, chain_col, selected_range, filtered,
                    numeric_cols, x_axis, y_axis, trend, plotted, top>>

textVars == <<text_in, text_out>>

----------------------------------------------------------------------------
(* Bounds of the model. *)

\* Most rows of a generated table of the position-cell family.
MaxRows == 3

\* Largest value of a generated measurement cell.
MaxVal == 2

\* Longest text handed to safe_text.
MaxTextLen == 3

(* Program constants. *)

\* head(5): the length of the top-correlations list.
TopN == 5

\* len(filtered) > 2: the row count a trend line needs to exceed.
TrendRowThreshold == 2

----------------------------------------------------------------------------
(* Cells *)

Null == [k |-> "null", v |-> 0, s |-> <<>>]
NaN == [k |-> "nan", v |-> 0, s |-> <<>>]
Inf(sign) == [k |-> "inf", v |-> sign, s |-> <<>>]
Tenths(n) == [k |-> "num", v |-> n, s |-> <<>>]
Num(x) == Tenths(10 * x)
Str(chars) == [k |-> "str", v |-> 0, s |-> chars]

\* pd.isna of a cell.
IsNa(c) == c.k \in {"null", "nan"}

IsFinite(c) == c.k = "num"

\* a <= b on floats: false as soon as one side is NaN.
Le(a, b) ==
    /\ a.k \in {"num", "inf"}
    /\ b.k \in {"num", "inf"}
    /\ \/ a.k = "inf" /\ a.v < 0
       \/ b.k = "inf" /\ b.v > 0
       \/ a.k = "num" /\ b.k = "num" /\ a.v <= b.v

\* a < b on floats.
Less(a, b) == Le(a, b) /\ ~Le(b, a)

Digits == {"0", "1", "2", "3", "4", "5", "6", "7", "8", "9"}

DigitVal(ch) ==
    CASE ch = "0" -> 0 [] ch = "1" -> 1 [] ch = "2" -> 2 [] ch = "3" -> 3
      [] ch = "4" -> 4 [] ch = "5" -> 5 [] ch = "6" -> 6 [] ch = "7" -> 7
      [] ch = "8" -> 8 [] ch = "9" -> 9

IsDigitOrDot(ch) == ch \in Digits \cup {"."}

\* re.sub(r"[^0-9.]", "", str(v)): every character but digits and dots goes.
StripNonNumeric(chars) == SelectSeq(chars, IsDigitOrDot)

RECURSIVE IntVal(_)
IntVal(ds) ==
    IF ds = <<>> THEN 0
    ELSE 10 * IntVal(SubSeq(ds, 1, Len(ds) - 1)) + DigitVal(ds[Len(ds)])

DotCount(chars) == Cardinality({i \in 1..Len(chars) : chars[i] = "."})
DigitCount(chars) == Cardinality({i \in 1..Len(chars) : chars[i] \in Digits})

\* Whether float() accepts a text of digits and dots.
IsUnsignedFloat(chars) == DotCount(chars) <= 1 /\ DigitCount(chars) >= 1

\* float() of an accepted text of digits and dots, in tenths.
UnsignedTenths(chars) ==
    LET dots == {i \in 1..Len(chars) : chars[i] = "."}
        dot == IF dots = {} THEN Len(chars) + 1 ELSE CHOOSE i \in dots : TRUE
        whole == SubSeq(chars, 1, dot - 1)
        frac == SubSeq(chars, dot + 1, Len(chars))
    IN  10 * IntVal(whole) + (IF frac = <<>> THEN 0 ELSE DigitVal(frac[1]))

\* clean_chainage(v) of app.py.
clean_chainage(c) ==
    IF IsNa(c) THEN Null
    ELSE IF c.k \in {"num", "inf"} THEN c
    ELSE LET t == StripNonNumeric(c.s)
         IN  IF IsUnsignedFloat(t) THEN Tenths(UnsignedTenths(t)) ELSE Null

\* pd.to_numeric(errors='coerce') of one cell: a text is parsed whole, with
\* its sign; what does not parse becomes NaN.
to_numeric(c) ==
    IF IsNa(c) THEN NaN
    ELSE IF c.k \in {"num", "inf"} THEN c
    ELSE LET neg == c.s # <<>> /\ c.s[1] = "-"
             body == IF neg THEN Tail(c.s) ELSE c.s
         IN  IF body = StripNonNumeric(body) /\ IsUnsignedFloat(body)
             THEN Tenths((IF neg THEN -1 ELSE 1) * UnsignedTenths(body))
             ELSE NaN

----------------------------------------------------------------------------
(* Tables: [cols, dtype, rows]; a row maps each column name to a cell. *)

\* "chain" in c, for the column names of the model.
ContainsChain(c) == c \in {"chainage"}

\* next((c for c in data.columns if "chain" in c), None)
DetectChainCol(t) ==
    LET hits == {i \in 1..Len(t.cols) : ContainsChain(t.cols[i])}
    IN  IF hits = {} THEN "None"
        ELSE t.cols[CHOOSE i \in hits : \A j \in hits : i <= j]

Column(t, c) == [i \in 1..Len(t.rows) |-> t.rows[i][c]]

\* The dtype pandas infers for a column of cells: object as soon as a text
\* is in it, a float column otherwise.
InferDtype(cells) ==
    IF \E i \in 1..Len(cells) : cells[i].k = "str" THEN "object" ELSE "float64"

MakeTable(cols, rows) ==
    [cols |-> cols,
     dtype |-> [c \in {cols[i] : i \in 1..Len(cols)} |->
                   InferDtype([i \in 1..Len(rows) |-> rows[i][c]])],
     rows |-> rows]

\* select_dtypes(include=numbers).columns.tolist()
NumericCols(t) == SelectSeq(t.cols, LAMBDA c : t.dtype[c] = "float64")

EmptyTable == [cols |-> <<>>, dtype |-> <<>>, rows |-> <<>>]

----------------------------------------------------------------------------
(* The uploaded tables the model draws from. *)

\* The measurement of row i in the generated position-cell tables.
TorqueAt == <<5, 7, 6, 9>>

PositionCells == {Null, NaN, Inf(1), Inf(-1), Num(1), Num(2)}

\* Texts of a position cell: "2m", "m", "1.5", "1.2.1", "-1", "."
ChainageTexts ==
    {<<"2", "m">>, <<"m">>, <<"1", ".", "5">>, <<"1", ".", "2", ".", "1">>,
     <<"-", "1">>, <<".">>}

\* chainage + torque, every kind of number-like position cell.
PositionTables ==
    UNION {{MakeTable(<<"chainage", "torque">>,
                      [i \in 1..n |-> [chainage |-> p[i],
                                       torque |-> Num(TorqueAt[i])]]) :
              p \in [1..n -> PositionCells]} : n \in 1..MaxRows}

\* chainage + torque, a text in the position cell of the second row.
TextTables ==
    {MakeTable(<<"chainage", "torque">>,
               <<[chainage |-> Num(2), torque |-> Num(5)],
                 [chainage |-> Str(t), torque |-> Num(7)]>>) :
       t \in ChainageTexts}

MeasurementCells == {Num(x) : x \in 1..MaxVal}

\* chainage + torque + thrust over three rows; torque may have empty cells.
MeasurementTables ==
    {MakeTable(<<"chainage", "torque", "thrust">>,
               [i \in 1..3 |-> [chainage |-> Num(i), torque |-> a[i],
                                thrust |-> b[i]]]) :
       a \in [1..3 -> MeasurementCells \cup {Null}],
       b \in [1..3 -> MeasurementCells]}

\* positions [100,140,120,160] with values [5,7,6,9]
ExampleTable ==
    MakeTable(<<"chainage", "torque">>,
              <<[chainage |-> Num(100), torque |-> Num(5)],
                [chainage |-> Num(140), torque |-> Num(7)],
                [chainage |-> Num(120), torque |-> Num(6)],
                [chainage |-> Num(160), torque |-> Num(9)]>>)

Note == Str(<<"o", "k">>)

\* Tables that differ in which columns they have.
SchemaTables ==
    {ExampleTable,
     MakeTable(<<"torque", "thrust">>,
               <<[torque |-> Num(1), thrust |-> Num(2)],
                 [torque |-> Num(2), thrust |-> Num(1)],
                 [torque |-> Num(3), thrust |-> Num(3)]>>),
     MakeTable(<<"torque", "thrust">>,
               <<[torque |-> Num(1), thrust |-> Num(2)],
                 [torque |-> Num(2), thrust |-> Num(4)],
                 [torque |-> Num(3), thrust |-> Num(6)]>>),
     MakeTable(<<"note">>, <<[note |-> Note], [note |-> Note]>>),
     MakeTable(<<"torque", "note">>,
               <<[torque |-> Num(1), note |-> Note],
                 [torque |-> Num(2), note |-> Note]>>),
     MakeTable(<<"chainage", "note">>,
               <<[chainage |-> Num(2), note |-> Note],
                 [chainage |-> Num(1), note |-> Note],
                 [chainage |-> Num(3), note |-> Note]>>)}

UploadedTables ==
    PositionTables \cup TextTables \cup MeasurementTables \cup SchemaTables

----------------------------------------------------------------------------
(* Pieces of the pipeline *)

\* Column c of t with cells[i] in row i.
SetColumn(t, c, cells) ==
    [t EXCEPT !.rows = [i \in 1..Len(t.rows) |-> [t.rows[i] EXCEPT ![c] = cells[i]]]]

\* data[chain_col] = data[chain_col].apply(clean_chainage).  clean_chainage
\* yields None for every cell it rejects: a column of nothing but None stays
\* an object column, any number makes it a float one.
ApplyCleanChainage(t, c) ==
    LET cells == [i \in 1..Len(t.rows) |-> clean_chainage(t.rows[i][c])]
    IN  [SetColumn(t, c, cells) EXCEPT
            !.dtype[c] = IF \A i \in 1..Len(cells) : cells[i].k = "null"
                         THEN "object" ELSE "float64"]

\* data[chain_col] = pd.to_numeric(data[chain_col], errors='coerce'): always
\* a float column.
ApplyToNumeric(t, c) ==
    LET cells == [i \in 1..Len(t.rows) |-> to_numeric(t.rows[i][c])]
    IN  [SetColumn(t, c, cells) EXCEPT !.dtype[c] = "float64"]

\* data.dropna(subset=[c])
DropNa(t, c) ==
    [t EXCEPT !.rows = SelectSeq(t.rows, LAMBDA r : ~IsNa(r[c]))]

RowOrders(n) ==
    {p \in [1..n -> 1..n] : \A i, j \in 1..n : i # j => p[i] # p[j]}

\* The outcomes of data.sort_values(by=c): the rows in ascending order of c;
\* the default sort is not stable, so rows with equal keys come in any order.
SortValues(t, c) ==
    LET n == Len(t.rows)
    IN  {[t EXCEPT !.rows = [i \in 1..n |-> t.rows[p[i]]]] :
            p \in {q \in RowOrders(n) :
                     \A i \in 1..(n - 1) :
                        Le(t.rows[q[i]][c], t.rows[q[i + 1]][c])}}

\* Series.min() / Series.max(): NaN and None are skipped; NaN when nothing
\* is left.
ColumnMin(t, c) ==
    LET vals == {t.rows[i][c] : i \in 1..Len(t.rows)} \ {Null, NaN}
    IN  IF vals = {} THEN NaN ELSE CHOOSE m \in vals : \A w \in vals : Le(m, w)

ColumnMax(t, c) ==
    LET vals == {t.rows[i][c] : i \in 1..Len(t.rows)} \ {Null, NaN}
    IN  IF vals = {} THEN NaN ELSE CHOOSE m \in vals : \A w \in vals : Le(w, m)

Unassigned == [set |-> FALSE, lo |-> Null, hi |-> Null]
Range(lo, hi) == [set |-> TRUE, lo |-> lo, hi |-> hi]

\* The values st.slider(label, min_c, max_c, (min_c, max_c)) can return: a
\* pair lo <= hi inside [min_c, max_c].  The model offers the positions of
\* the table as the slider's stops.
SliderValues(t, c) ==
    LET lo == ColumnMin(t, c)
        stops == {t.rows[i][c] : i \in 1..Len(t.rows)} \ {Null, NaN}
    IN  IF lo.k = "nan" THEN {Range(NaN, NaN)}
        ELSE {r \in {Range(a, b) : a \in stops, b \in stops} : Le(r.lo, r.hi)}

\* Whether the slider is given bounds that are not finite numbers.
SliderBoundsFinite(t, c) ==
    IsFinite(ColumnMin(t, c)) /\ IsFinite(ColumnMax(t, c))

\* The filter with the upper end left out: data[c] < hi for data[c] <= hi.
RangeFilterOpenHigh(t, c, lo, hi) ==
    [t EXCEPT !.rows = SelectSeq(t.rows, LAMBDA r : Le(lo, r[c]) /\ Less(r[c], hi))]

\* data[(data[c] >= lo) & (data[c] <= hi)]
RangeFilter(t, c, lo, hi) ==
    [t EXCEPT !.rows = SelectSeq(t.rows, LAMBDA r : Le(lo, r[c]) /\ Le(r[c], hi))]

NoTrend == [fitted |-> FALSE, xs |-> <<>>, ys |-> <<>>]

\* if len(filtered) > 2: z = np.polyfit(filtered[x_axis], filtered[y_axis], 1)
TrendFit(t, x, y) ==
    IF Len(t.rows) > TrendRowThreshold
    THEN [fitted |-> TRUE, xs |-> Column(t, x), ys |-> Column(t, y)]
    ELSE NoTrend

AllFinite(cells) == \A i \in 1..Len(cells) : IsFinite(cells[i])

----------------------------------------------------------------------------
(* Correlation.  |r| of two columns is kept as the reduced fraction n/d of *)
(* r squared (exact arithmetic), or marked undefined (pandas' NaN).        *)

RECURSIVE Sum(_, _)
Sum(f, S) ==
    IF S = {} THEN 0
    ELSE LET i == CHOOSE j \in S : TRUE IN f[i] + Sum(f, S \ {i})

RECURSIVE GCD(_, _)
GCD(a, b) == IF b = 0 THEN a ELSE GCD(b, a % b)

AbsInt(a) == IF a < 0 THEN -a ELSE a

Undefined == [def |-> FALSE, n |-> 0, d |-> 1]

\* DataFrame.corr() for one pair, then .abs(): Pearson's r over the rows
\* where both cells are present; NaN with fewer than two such rows, with a
\* column of zero variance, or with an infinite cell.
AbsCorr(t, a, b) ==
    LET idx == {i \in 1..Len(t.rows) : ~IsNa(t.rows[i][a]) /\ ~IsNa(t.rows[i][b])}
        x == [i \in idx |-> t.rows[i][a].v]
        y == [i \in idx |-> t.rows[i][b].v]
        n == Cardinality(idx)
        sxx == n * Sum([i \in idx |-> x[i] * x[i]], idx) - Sum(x, idx) * Sum(x, idx)
        syy == n * Sum([i \in idx |-> y[i] * y[i]], idx) - Sum(y, idx) * Sum(y, idx)
        sxy == AbsInt(n * Sum([i \in idx |-> x[i] * y[i]], idx) - Sum(x, idx) * Sum(y, idx))
    IN  IF \E i \in idx : ~IsFinite(t.rows[i][a]) \/ ~IsFinite(t.rows[i][b])
        THEN Undefined
        ELSE IF n < 2 \/ sxx = 0 \/ syy = 0 THEN Undefined
        ELSE LET g1 == GCD(sxx, sxy)
                 g2 == GCD(syy, sxy)
                 num == (sxy \div g1) * (sxy \div g2)
                 den == (sxx \div g1) * (syy \div g2)
                 g == GCD(den, num)
             IN  [def |-> TRUE, n |-> num \div g, d |-> den \div g]

\* u >= w on absolute coefficients.
CorrGe(u, w) == u.def /\ w.def /\ u.n * w.d >= w.n * u.d

\* data.corr(numeric_only=True).abs().unstack(): one entry per ordered pair
\* of numeric columns, the diagonal included.
Unstack(t) ==
    LET nc == NumericCols(t)
        m == Len(nc)
    IN  [k \in 1..(m * m) |->
            LET a == nc[((k - 1) \div m) + 1]
                b == nc[((k - 1) % m) + 1]
            IN  [a |-> a, b |-> b, val |-> AbsCorr(t, a, b)]]

\* Where sort_values(ascending=False) puts e in an already sorted list: after
\* the entries that are not smaller, NaN entries last.
InsertDesc(sorted, e) ==
    LET ahead == {i \in 1..Len(sorted) :
                    IF e.val.def THEN CorrGe(sorted[i].val, e.val) ELSE TRUE}
        k == Cardinality(ahead)
    IN  SubSeq(sorted, 1, k) \o <<e>> \o SubSeq(sorted, k + 1, Len(sorted))

RECURSIVE SortDesc(_)
SortDesc(entries) ==
    IF entries = <<>> THEN <<>>
    ELSE InsertDesc(SortDesc(SubSeq(entries, 1, Len(entries) - 1)),
                    entries[Len(entries)])

\* corr_matrix[corr_matrix < 1]
BelowOne(e) == e.val.def /\ e.val.n < e.val.d

HeadN(seq, n) == SubSeq(seq, 1, IF Len(seq) < n THEN Len(seq) ELSE n)

\* corr_matrix = ...unstack().sort_values(ascending=False)
\* corr_matrix = corr_matrix[corr_matrix < 1].dropna().head(5)
TopCorrelations(t) ==
    HeadN(SelectSeq(SelectSeq(SortDesc(Unstack(t)), BelowOne),
                    LAMBDA e : e.val.def),
          TopN)

----------------------------------------------------------------------------
(* safe_text: a text is a sequence of code points. *)

\* The replacements of safe_text, in the order of the dict.
Replacements ==
    <<[k |-> 8211, v |-> <<45>>],
      [k |-> 8212, v |-> <<45>>],
      [k |-> 176, v |-> <<32, 100, 101, 103>>],
      [k |-> 177, v |-> <<43, 47, 45>>],
      [k |-> 215, v |-> <<120>>],
      [k |-> 8226, v |-> <<42>>],
      [k |-> 8217, v |-> <<39>>],
      [k |-> 8216, v |-> <<39>>],
      [k |-> 8220, v |-> <<34>>],
      [k |-> 8221, v |-> <<34>>],
      [k |-> 8594, v |-> <<45, 62>>]>>

\* text.replace(k, v) for a one-character k.
RECURSIVE ReplaceChar(_, _, _)
ReplaceChar(text, k, v) ==
    IF text = <<>> THEN <<>>
    ELSE (IF Head(text) = k THEN v ELSE <<Head(text)>>)
         \o ReplaceChar(Tail(text), k, v)

\* for k, v in replacements.items(): text = text.replace(k, v)
RECURSIVE ReplaceAll(_, _)
ReplaceAll(text, reps) ==
    IF reps = <<>> THEN text
    ELSE ReplaceAll(ReplaceChar(text, Head(reps).k, Head(reps).v), Tail(reps))

\* text.encode("latin-1", "replace").decode("latin-1"): a code point above
\* 255 becomes "?", every other one is kept.
EncodeLatin1(text) ==
    [i \in 1..Len(text) |-> IF text[i] > 255 THEN 63 ELSE text[i]]

safe_text(text) == EncodeLatin1(ReplaceAll(text, Replacements))

\* "A", the plus-minus sign, the en dash, e acute, the euro sign, the arrow.
TextAlphabet == {65, 177, 8211, 233, 8364, 8594}

Texts == UNION {[1..n -> TextAlphabet] : n \in 0..MaxTextLen}

----------------------------------------------------------------------------
(* The run of a script.  pc names the step that runs next; when a run ends *)
(* early pc stays at the step that ended it and err says how: an st.error  *)
(* followed by st.stop(), or an exception.  pc = "end" is a run that went  *)
(* through, pc = "exported" one that also wrote the report.                 *)

Init ==
    /\ app \in {"basic", "enhanced"}
    /\ pc = "detect"
    /\ uploaded \in UploadedTables
    /\ data = uploaded
    /\ chain_col = "unset"
    /\ selected_range = Unassigned
    /\ filtered = EmptyTable
    /\ numeric_cols = <<>>
    /\ x_axis = "unset"
    /\ y_axis = "unset"
    /\ trend = NoTrend
    /\ plotted = FALSE
    /\ top = <<>>
    /\ err = "none"
    /\ text_in = <<>>
    /\ text_out = <<>>

Running(a, step) == app = a /\ pc = step /\ err = "none"

(* ------------------------------ app.py ------------------------------- *)

\* lines 21-24: no position column is fatal.
BasicDetect ==
    /\ Running("basic", "detect")
    /\ chain_col' = DetectChainCol(data)
    /\ IF chain_col' = "None"
       THEN err' = "MissingPositionColumn" /\ pc' = pc
       ELSE err' = err /\ pc' = "clean"
    /\ UNCHANGED <<app, uploaded, data, selected_range, filtered, numeric_cols,
                   x_axis, y_axis, trend, plotted, top, textVars>>

\* lines 34-36: clean the position column, drop the rejected rows, sort.
BasicClean ==
    /\ Running("basic", "clean")
    /\ data' \in SortValues(DropNa(ApplyCleanChainage(data, chain_col),
                                   chain_col),
                            chain_col)
    /\ pc' = "slider"
    /\ UNCHANGED <<app, uploaded, chain_col, selected_range, filtered,
                   numeric_cols, x_axis, y_axis, trend, plotted, top, err,
                   textVars>>

\* lines 40-45: the range slider between the least and the largest position.
BasicSlider ==
    /\ Running("basic", "slider")
    /\ \E r \in SliderValues(data, chain_col) :
          /\ selected_range' = r
          /\ pc' = "filter"
          /\ err' = err
    /\ UNCHANGED <<app, uploaded, data, chain_col, filtered, numeric_cols,
                   x_axis, y_axis, trend, plotted, top, textVars>>

\* The slider given a NaN or an infinite bound: the widget may reject it,
\* and the script's except clause reports the exception.
BasicSliderRaises ==
    /\ Running("basic", "slider")
    /\ ~SliderBoundsFinite(data, chain_col)
    /\ err' = "SliderRaised"
    /\ UNCHANGED <<pc, pipeVarsButErr, textVars>>

\* lines 47-50
BasicFilter ==
    /\ Running("basic", "filter")
    /\ filtered' = RangeFilter(data, chain_col, selected_range.lo, selected_range.hi)
    /\ pc' = "numeric"
    /\ UNCHANGED <<app, uploaded, data, chain_col, selected_range, numeric_cols,
                   x_axis, y_axis, trend, plotted, top, err, textVars>>

\* lines 53-56: fewer than two numeric columns is fatal.
BasicNumeric ==
    /\ Running("basic", "numeric")
    /\ numeric_cols' = NumericCols(filtered)
    /\ IF Len(numeric_cols') < 2
       THEN err' = "InsufficientNumericColumns" /\ pc' = pc
       ELSE err' = err /\ pc' = "axes"
    /\ UNCHANGED <<app, uploaded, data, chain_col, selected_range, filtered,
                   x_axis, y_axis, trend, plotted, top, textVars>>

\* lines 59-60: the two selectboxes over numeric_cols.
BasicAxes ==
    /\ Running("basic", "axes")
    /\ \E i, j \in 1..Len(numeric_cols) :
          /\ x_axis' = numeric_cols[i]
          /\ y_axis' = numeric_cols[j]
    /\ pc' = "trend"
    /\ UNCHANGED <<app, uploaded, data, chain_col, selected_range, filtered,
                   numeric_cols, trend, plotted, top, err, textVars>>

\* lines 66-107: the scatter plot and, over more than two rows, the trend line.
BasicTrend ==
    /\ Running("basic", "trend")
    /\ trend' = TrendFit(filtered, x_axis, y_axis)
    /\ plotted' = TRUE
    /\ pc' = "summary"
    /\ UNCHANGED <<app, uploaded, data, chain_col, selected_range, filtered,
                   numeric_cols, x_axis, y_axis, top, err, textVars>>

\* np.polyfit handed a NaN or an infinite value: the least-squares solver may
\* raise, and the script's except clause reports the exception before the
\* chart is shown.
BasicTrendRaises ==
    /\ Running("basic", "trend")
    /\ trend' = TrendFit(filtered, x_axis, y_axis)
    /\ trend'.fitted /\ ~(AllFinite(trend'.xs) /\ AllFinite(trend'.ys))
    /\ err' = "PolyfitRaised"
    /\ UNCHANGED <<app, pc, uploaded, data, chain_col, selected_range, filtered,
                   numeric_cols, x_axis, y_axis, plotted, top, textVars>>

\* lines 139-147: the data table and the summary.
BasicSummary ==
    /\ Running("basic", "summary")
    /\ pc' = "end"
    /\ UNCHANGED <<pipeVars, textVars>>

(* ----------------------- the enhanced app ---------------------------- *)

\* lines 21-23: the position column, when there is one, is coerced to numbers.
EnhDetect ==
    /\ Running("enhanced", "detect")
    /\ chain_col' = DetectChainCol(data)
    /\ data' = IF chain_col' = "None" THEN data
               ELSE ApplyToNumeric(data, chain_col')
    /\ pc' = "numeric"
    /\ UNCHANGED <<app, uploaded, selected_range, filtered, numeric_cols,
                   x_axis, y_axis, trend, plotted, top, err, textVars>>

\* line 26
EnhNumeric ==
    /\ Running("enhanced", "numeric")
    /\ numeric_cols' = NumericCols(data)
    /\ pc' = "axes"
    /\ UNCHANGED <<app, uploaded, data, chain_col, selected_range, filtered,
                   x_axis, y_axis, trend, plotted, top, err, textVars>>

\* What st.selectbox(label, options, index=k) does before the user chooses:
\* no options give None; an index outside the options raises.
SelectboxRaises(options, index) == Len(options) > 0 /\ index >= Len(options)

SelectboxValues(options) ==
    IF options = <<>> THEN {"None"} ELSE {options[i] : i \in 1..Len(options)}

\* lines 30-31: X-axis with index=0, Y-axis with index=1.
EnhAxes ==
    /\ Running("enhanced", "axes")
    /\ x_axis' \in SelectboxValues(numeric_cols)
    /\ IF SelectboxRaises(numeric_cols, 1)
       THEN y_axis' = y_axis /\ err' = "SelectboxRaised" /\ pc' = pc
       ELSE y_axis' \in SelectboxValues(numeric_cols) /\ err' = err /\ pc' = "slider"
    /\ UNCHANGED <<app, uploaded, data, chain_col, selected_range, filtered,
                   numeric_cols, trend, plotted, top, textVars>>

\* lines 35-37: the slider exists only when there is a position column.
EnhSlider ==
    /\ Running("enhanced", "slider")
    /\ chain_col # "None"
    /\ \E r \in SliderValues(data, chain_col) : selected_range' = r
    /\ pc' = "filter"
    /\ UNCHANGED <<app, uploaded, data, chain_col, filtered, numeric_cols,
                   x_axis, y_axis, trend, plotted, top, err, textVars>>

EnhSliderRaises ==
    /\ Running("enhanced", "slider")
    /\ chain_col # "None"
    /\ ~SliderBoundsFinite(data, chain_col)
    /\ err' = "SliderRaised"
    /\ UNCHANGED <<pc, pipeVarsButErr, textVars>>

\* line 35, chain_col is None: no slider, no filter; the later steps work on
\* the whole table.
EnhNoSlider ==
    /\ Running("enhanced", "slider")
    /\ chain_col = "None"
    /\ filtered' = data
    /\ pc' = "plot"
    /\ UNCHANGED <<app, uploaded, data, chain_col, selected_range, numeric_cols,
                   x_axis, y_axis, trend, plotted, top, err, textVars>>

\* line 38: data = data[...]; the filtered table is what `data` names from
\* here on, kept in `filtered`.
EnhFilter ==
    /\ Running("enhanced", "filter")
    /\ filtered' = RangeFilter(data, chain_col, selected_range.lo, selected_range.hi)
    /\ pc' = "plot"
    /\ UNCHANGED <<app, uploaded, data, chain_col, selected_range, numeric_cols,
                   x_axis, y_axis, trend, plotted, top, err, textVars>>

\* lines 46-112: the key figures, the scatter plots, the line charts, the table.
EnhPlot ==
    /\ Running("enhanced", "plot")
    /\ plotted' = TRUE
    /\ pc' = "button"
    /\ UNCHANGED <<app, uploaded, data, chain_col, selected_range, filtered,
                   numeric_cols, x_axis, y_axis, trend, top, err, textVars>>

\* px.scatter(..., trendline="ols") with x = y = None: the fit has no columns
\* to work on and may raise.
EnhPlotRaises ==
    /\ Running("enhanced", "plot")
    /\ x_axis = "None" \/ y_axis = "None"
    /\ err' = "ScatterRaised"
    /\ UNCHANGED <<pc, pipeVarsButErr, textVars>>

\* line 116, the button pressed; lines 139-157: the report reads
\* selected_range, then ranks the correlations of the table.
EnhExport ==
    /\ Running("enhanced", "button")
    /\ IF selected_range.set
       THEN top' = TopCorrelations(filtered) /\ err' = err /\ pc' = "exported"
       ELSE top' = top /\ err' = "NameError" /\ pc' = pc
    /\ UNCHANGED <<app, uploaded, data, chain_col, selected_range, filtered,
                   numeric_cols, x_axis, y_axis, trend, plotted, textVars>>

\* line 116, the button not pressed.
EnhNoExport ==
    /\ Running("enhanced", "button")
    /\ pc' = "end"
    /\ UNCHANGED <<pipeVars, textVars>>

Next ==
    \/ BasicDetect \/ BasicClean \/ BasicSlider \/ BasicSliderRaises
    \/ BasicFilter \/ BasicNumeric \/ BasicAxes \/ BasicTrend
    \/ BasicTrendRaises \/ BasicSummary
    \/ EnhDetect \/ EnhNumeric \/ EnhAxes \/ EnhSlider \/ EnhSliderRaises
    \/ EnhNoSlider \/ EnhFilter \/ EnhPlot \/ EnhPlotRaises
    \/ EnhExport \/ EnhNoExport

Spec == Init /\ [][Next]_vars

----------------------------------------------------------------------------
(* The range filter on its own: the filter expression applied to a table   *)
(* and to bounds in either order, as a caller other than the slider may    *)
(* hand them.                                                              *)

FilterTables ==
    {MakeTable(<<"chainage", "torque">>,
               [i \in 1..2 |-> [chainage |-> p[i], torque |-> Num(TorqueAt[i])]]) :
       p \in [1..2 -> {Num(1), Num(2), Num(3)}]}

InitFilter ==
    /\ app = "filter"
    /\ pc = "call"
    /\ uploaded \in FilterTables
    /\ data = uploaded
    /\ chain_col = "chainage"
    /\ selected_range \in {Range(a, b) : a \in {Num(1), Num(2), Num(3)},
                                          b \in {Num(1), Num(2), Num(3)}}
    /\ filtered = EmptyTable
    /\ numeric_cols = <<>>
    /\ x_axis = "unset"
    /\ y_axis = "unset"
    /\ trend = NoTrend
    /\ plotted = FALSE
    /\ top = <<>>
    /\ err = "none"
    /\ text_in = <<>>
    /\ text_out = <<>>

\* The filter expression (app.py lines 47-50, enhanced app line 38): nothing
\* looks at the order of the bounds before or while filtering.
FilterCall ==
    /\ Running("filter", "call")
    /\ filtered' = RangeFilter(data, chain_col, selected_range.lo, selected_range.hi)
    /\ pc' = "end"
    /\ UNCHANGED <<app, uploaded, data, chain_col, selected_range, numeric_cols,
                   x_axis, y_axis, trend, plotted, top, err, textVars>>

NextFilter == FilterCall

SpecFilter == InitFilter /\ [][NextFilter]_vars

----------------------------------------------------------------------------
(* safe_text on its own. *)

InitText ==
    /\ app = "report"
    /\ pc = "call"
    /\ text_in \in Texts
    /\ text_out = <<>>
    /\ uploaded = EmptyTable
    /\ data = EmptyTable
    /\ chain_col = "unset"
    /\ selected_range = Unassigned
    /\ filtered = EmptyTable
    /\ numeric_cols = <<>>
    /\ x_axis = "unset"
    /\ y_axis = "unset"
    /\ trend = NoTrend
    /\ plotted = FALSE
    /\ top = <<>>
    /\ err = "none"

SafeTextCall ==
    /\ Running("report", "call")
    /\ text_out' = safe_text(text_in)
    /\ pc' = "end"
    /\ UNCHANGED <<pipeVars, text_in>>

NextText == SafeTextCall

SpecText == InitText /\ [][NextText]_vars

----------------------------------------------------------------------------
(* Properties *)

\* {a, b} of an entry of the top-correlations list.
PairOf(e) == {e.a, e.b}

Exported == app = "enhanced" /\ pc = "exported"

\* C1: the top-correlations list of the report never holds two entries for
\* the same unordered column pair (A-B and B-A are one pair), and its entries
\* are in non-increasing order of absolute coefficient.
C1_TopNoDuplicatePairSorted ==
    /\ \A i, j \in 1..Len(top) : i < j => PairOf(top[i]) # PairOf(top[j])
    /\ \A i \in 1..(Len(top) - 1) : CorrGe(top[i].val, top[i + 1].val)

\* Whether the run is past the cleaning of the position column and the
\* dropping of rows: in app.py past dropna, in the enhanced app (which drops
\* rows only in the range filter) past the filter.
BasicCleaned == app = "basic" /\ pc \notin {"detect", "clean"}
EnhFiltered ==
    /\ app = "enhanced"
    /\ selected_range.set
    /\ pc \in {"plot", "button", "end", "exported"}

\* C2: every row left in the working table after chainage cleaning and row
\* dropping has a finite position (neither NaN nor infinite).
C2_RemainingPositionsFinite ==
    /\ BasicCleaned =>
          \A i \in 1..Len(data.rows) : IsFinite(data.rows[i][chain_col])
    /\ EnhFiltered =>
          \A i \in 1..Len(filtered.rows) : IsFinite(filtered.rows[i][chain_col])

\* b < a on two finite positions.
OutOfOrder(a, b) == IsFinite(a) /\ IsFinite(b) /\ Less(b, a)

\* The other columns of row r are those of row u of the upload.
SameMeasurements(t, r, u) ==
    \A k \in 1..Len(t.cols) : t.cols[k] # chain_col => r[t.cols[k]] = u[t.cols[k]]

\* C3: the table the range filter works on is sorted ascending by position
\* (no later row has a smaller position than the row before it), every row
\* keeps its own values in the other columns, and positions [100,140,120,160]
\* with values [5,7,6,9] have become [100,120,140,160] with [5,6,7,9].
C3_FilterInputSorted ==
    pc = "filter" /\ app \in {"basic", "enhanced"} =>
       /\ \A i \in 1..(Len(data.rows) - 1) :
             ~OutOfOrder(data.rows[i][chain_col], data.rows[i + 1][chain_col])
       /\ \A i \in 1..Len(data.rows) : \E j \in 1..Len(uploaded.rows) :
             SameMeasurements(data, data.rows[i], uploaded.rows[j])
       /\ uploaded = ExampleTable =>
             /\ Column(data, "chainage") = <<Num(100), Num(120), Num(140), Num(160)>>
             /\ Column(data, "torque") = <<Num(5), Num(6), Num(7), Num(9)>>

\* Whether the range filter has run in this run.
FilterDone ==
    /\ selected_range.set
    /\ \/ app = "basic" /\ pc \in {"numeric", "axes", "trend", "summary", "end"}
       \/ app = "enhanced" /\ pc \in {"plot", "button", "end", "exported"}

\* The rows of `data` whose position v has lo <= v <= hi.
InRangeRows ==
    {i \in 1..Len(data.rows) :
        /\ Le(selected_range.lo, data.rows[i][chain_col])
        /\ Le(data.rows[i][chain_col], selected_range.hi)}

\* C4: the range filter keeps exactly the rows whose position v satisfies
\* lowBound <= v <= highBound, both ends inclusive, in their existing order,
\* and the same filter applied to its own output returns an identical table.
C4_FilterExactIdempotent ==
    FilterDone =>
       /\ Len(filtered.rows) = Cardinality(InRangeRows)
       /\ \A i \in InRangeRows :
             filtered.rows[Cardinality({j \in InRangeRows : j <= i})] = data.rows[i]
       /\ filtered.cols = data.cols
       /\ RangeFilter(filtered, chain_col, selected_range.lo, selected_range.hi)
             = filtered

\* C4, the case: the filter has kept a row at each end of the range and has
\* dropped a row.
C4_Witness ==
    /\ FilterDone
    /\ Len(filtered.rows) < Len(data.rows)
    /\ \E i \in 1..Len(filtered.rows) : filtered.rows[i][chain_col] = selected_range.lo
    /\ \E i \in 1..Len(filtered.rows) : filtered.rows[i][chain_col] = selected_range.hi
    /\ selected_range.lo # selected_range.hi

C6_SafeTextAscii ==
    app = "report" /\ pc = "end" =>
       \A i \in 1..Len(text_out) : text_out[i] < 128

\* C7: the top-correlations list is the head of the descending ranking of
\* all pairs of distinct numeric columns with a defined correlation: every
\* entry is such a pair, and such a pair is missing from the list only when
\* the list is full of entries that rank at least as high.
C7_TopRanksEveryDefinedPair ==
    Exported =>
       LET nc == NumericCols(filtered)
           cols == {nc[i] : i \in 1..Len(nc)}
       IN  /\ \A i \in 1..Len(top) :
                 top[i].a # top[i].b /\ AbsCorr(filtered, top[i].a, top[i].b).def
           /\ \A a, b \in cols :
                 a # b /\ AbsCorr(filtered, a, b).def =>
                    \/ \E i \in 1..Len(top) : PairOf(top[i]) = {a, b}
                    \/ /\ Len(top) = TopN
                       /\ \A i \in 1..Len(top) :
                             CorrGe(top[i].val, AbsCorr(filtered, a, b))

\* The rows of the filtered table where both the x and the y cell are present.
ValidPoints ==
    {i \in 1..Len(filtered.rows) :
        ~IsNa(filtered.rows[i][x_axis]) /\ ~IsNa(filtered.rows[i][y_axis])}

\* Whether app.py has been through its trend-line step.
TrendDecided ==
    /\ app = "basic"
    /\ pc \in {"summary", "end"} \/ err = "PolyfitRaised"

\* C8: a trend line is fitted exactly when at least 3 valid (x, y) points
\* remain in the filtered table, and the fit is handed no empty cell.
C8_TrendNeedsThreeValidPoints ==
    TrendDecided =>
       /\ trend.fitted <=> Cardinality(ValidPoints) >= 3
       /\ trend.fitted =>
             \A i \in 1..Len(trend.xs) : ~IsNa(trend.xs[i]) /\ ~IsNa(trend.ys[i])

\* Whether the run has been through the step that lists the numeric columns.
NumericListed ==
    \/ app = "basic" /\ \/ pc \in {"axes", "trend", "summary", "end"}
                        \/ pc = "numeric" /\ err # "none"
    \/ app = "enhanced" /\ pc \notin {"detect", "numeric"}

\* C9: with fewer than two numeric columns the run ends with the
\* InsufficientNumericColumns error, and no axis is selected, nothing is
\* fitted, ranked or plotted.
C9_InsufficientNumericColumnsStops ==
    NumericListed /\ Len(numeric_cols) < 2 =>
       /\ x_axis = "unset" /\ y_axis = "unset"
       /\ ~trend.fitted /\ ~plotted /\ top = <<>>
       /\ err # "none" \/ pc \in {"end", "exported"} =>
             err = "InsufficientNumericColumns"

\* C10: in the enhanced app the report never reads a chainage range that was
\* not assigned, position column or not.
C10_ReportRangeAssigned ==
    app = "enhanced" /\ pc = "button" => err # "NameError"

====
